---- MODULE Spec2Model ----
(***************************************************************************)
(* Listing intake (deduplication guard) and the partner-driven listing     *)
(* lifecycle of backend/main.py.                                           *)
(*                                                                         *)
(* Every request handler is a pure operator from the database and the      *)
(* request's inputs to a response code and the database after the request. *)
(* Spec runs each handler as one step (one request at a time); SpecRace    *)
(* runs create_listing and partner_accept_lead as the two database round   *)
(* trips they are (query, then commit), interleaved between workers;       *)
(* SpecEstimate runs one submission through the estimation block of        *)
(* create_listing, for every state of the vision and tabular models;       *)
(* SpecNearby lets partners register and be verified and searches them;    *)
(* SpecModeration adds the admin's listing routes and delete_listing to    *)
(* the lifecycle; SpecPartners runs every route that writes "partners".    *)
(***************************************************************************)
EXTENDS Integers, Sequences, FiniteSets, TLC

VARIABLES
    listings,   \* table "listings": id -> row
    partners,   \* table "partners": id -> row
    last,       \* the response of the request handled last
    inflight,   \* the request each worker thread is handling (SpecRace)
    estimation, \* one submission and its estimation result (SpecEstimate)
    uploads,    \* the names of the files in the upload directory
    users       \* table "users": id -> row

vars == <<listings, partners, last, inflight, estimation, uploads, users>>

----------------------------------------------------------------------------
(* Bounds and input sets                                                   *)

MaxListings == 2

\* At most this many files in the upload directory.
MaxUploads == 3

\* At most this many rows in "users" and in "partners".
MaxUsers == 5

MaxPartners == 4

Users == {1, 2, 3}

\* The callers of the admin routes: a customer and the admin.
Callers == {3, 4}

\* The worker threads of the server's pool that handle requests in parallel.
Workers == {1, 2}

\* Text is a sequence of characters, so that strip() and lower() are computed.
BrandInputs == { <<"A", "p">>, <<" ", "a", "p", " ">> }

ModelInputs == { <<"S", "1">>, <<"s", "1", " ">> }

\* Uploaded image bytes; <<>> is the empty upload.
ImageInputs == { <<>>, <<7>>, <<9>> }

SELL == <<"s", "e", "l", "l">>

REPAIR == <<"r", "e", "p", "a", "i", "r">>

RECYCLE == <<"r", "e", "c", "y", "c", "l", "e">>

IntentInputs == { SELL, <<" ", "R", "e", "p", "a", "i", "r">> }

\* The decision of the estimation result (predictions.decision).
Decisions == { "repair", "recycle" }

OutcomeInputs == { <<"S", "o", "l", "d", " ">>, <<"s", "o", "l", "d">> }

PriceInputs == { 900 }

RulInputs == { 6 }

\* Optional[...] values: None, or a one-element tuple holding the value.
None == <<>>

Some(v) == <<v>>

ListingIds == 1 .. MaxListings

----------------------------------------------------------------------------
(* Text helpers: str.strip() and str.lower()                               *)

\* The upper-case letters and their str.lower() images.
ToLower ==
    [ c \in { "A", "B", "C", "D", "E", "F", "G", "H", "I", "J", "K", "L", "M",
              "N", "O", "P", "Q", "R", "S", "T", "U", "V", "W", "X", "Y", "Z" } |->
        CASE c = "A" -> "a" [] c = "B" -> "b" [] c = "C" -> "c" [] c = "D" -> "d"
          [] c = "E" -> "e" [] c = "F" -> "f" [] c = "G" -> "g" [] c = "H" -> "h"
          [] c = "I" -> "i" [] c = "J" -> "j" [] c = "K" -> "k" [] c = "L" -> "l"
          [] c = "M" -> "m" [] c = "N" -> "n" [] c = "O" -> "o" [] c = "P" -> "p"
          [] c = "Q" -> "q" [] c = "R" -> "r" [] c = "S" -> "s" [] c = "T" -> "t"
          [] c = "U" -> "u" [] c = "V" -> "v" [] c = "W" -> "w" [] c = "X" -> "x"
          [] c = "Y" -> "y" [] c = "Z" -> "z" ]

LowerChar(c) == IF c \in DOMAIN ToLower THEN ToLower[c] ELSE c

Lower(s) == [i \in 1 .. Len(s) |-> LowerChar(s[i])]

RECURSIVE LStrip(_)
LStrip(s) ==
    IF s = <<>> THEN s
    ELSE IF Head(s) = " " THEN LStrip(Tail(s)) ELSE s

RECURSIVE RStrip(_)
RStrip(s) ==
    IF s = <<>> THEN s
    ELSE IF s[Len(s)] = " " THEN RStrip(SubSeq(s, 1, Len(s) - 1)) ELSE s

Strip(s) == RStrip(LStrip(s))

\* A plausible slip: trims but forgets to lower-case.
NormText_NoLower(s) == Strip(s)

\* (brand or '').strip().lower()
NormText(s) == Lower(Strip(s))

----------------------------------------------------------------------------
(* Deduplication guard                                                     *)

\* hashlib.md5(raw_bytes).hexdigest(): one token per content, no "|" in it.
MD5(bytes) == <<"md5", bytes>>

\* hashlib.sha256(text).hexdigest(): one digest per text.
SHA256(text) == <<"sha256", text>>

\* sha256(f"{user.id}|{brand}|{model}|{image_md5}")
DedupeKey(user_id, brand, model, image_md5) ==
    SHA256(<<ToString(user_id)>> \o <<"|">> \o NormText(brand) \o <<"|">>
           \o NormText(model) \o <<"|">> \o <<image_md5>>)

Min(S) == CHOOSE x \in S : \A y \in S : x <= y

Max(S) == CHOOSE x \in S : \A y \in S : x >= y

\* A plausible slip: de-duplicates on the image content across all users.
FindDuplicate_ByImage(db, user_id, brand, model, image_md5) ==
    LET hits == { i \in DOMAIN db : db[i].image_md5 = image_md5 }
    IN  IF hits = {} THEN None ELSE Some(Min(hits))

\* The query for an existing row of this user with this dedupe key; .first()
FindDuplicate(db, user_id, brand, model, image_md5) ==
    LET key == DedupeKey(user_id, brand, model, image_md5)
        hits == { i \in DOMAIN db :
                    db[i].user_id = user_id /\ db[i].dedupe_key = key }
    IN  IF hits = {} THEN None ELSE Some(Min(hits))

\* The rowid SQLite gives the next inserted row of an INTEGER PRIMARY KEY.
NextId(db) == IF DOMAIN db = {} THEN 1 ELSE Max(DOMAIN db) + 1

\* (user_intent or "sell").strip().lower(), anything unknown is "sell"
NormIntent(user_intent) ==
    LET i == NormText(user_intent)
    IN  IF i \in {SELL, REPAIR, RECYCLE} THEN i ELSE SELL

\* A plausible slip: the estimation result's decision is ignored.
StatusInitial_IntentOnly(intent, decision) ==
    IF intent \in {REPAIR, RECYCLE} THEN "shared_with_partner" ELSE "created"

\* status_initial: by intent before the estimation, by decision after it
StatusInitial(intent, decision) ==
    IF intent \in {REPAIR, RECYCLE} \/ decision = "repair"
    THEN "shared_with_partner" ELSE "created"

\* The Listing row create_listing builds.
NewRow(user_id, brand, model, user_intent, image, decision, save_path) ==
    [ user_id           |-> user_id,
      image_path        |-> save_path,
      brand             |-> brand,
      model             |-> model,
      image_md5         |-> MD5(image),
      dedupe_key        |-> DedupeKey(user_id, brand, model, MD5(image)),
      status            |-> StatusInitial(NormIntent(user_intent), decision),
      intent            |-> NormIntent(user_intent),
      chosen_partner_id |-> None,
      final_price       |-> None,
      final_rul_months  |-> None,
      outcome           |-> None ]

\* db.add(row); db.commit(); db.refresh(row)
InsertRow(db, row) ==
    [ i \in DOMAIN db \cup {NextId(db)} |->
        IF i \in DOMAIN db THEN db[i] ELSE row ]

\* What a handler does: the HTTP status and detail it answers with, the
\* database it leaves, and the listing id in the answer (None on an error).
Response(code, detail, db, listing_id) ==
    [ code |-> code, detail |-> detail, db |-> db, listing_id |-> listing_id ]

\* raise HTTPException(status_code=code, detail=detail): nothing is committed.
Fail(code, detail, db) == Response(code, detail, db, None)

Ok(db, listing_id) == Response(200, "ok", db, Some(listing_id))

\* POST /listings/create
\* uuid.uuid4().hex: a name no file in the directory has.
FreshFile(files) == Min({ f \in 1 .. Cardinality(files) + 1 : f \notin files })

\* with open(save_path, "wb") as f: f.write(raw_bytes) -- reached only with a
\* non-empty image, and before the duplicate check.
SaveUpload(files, image) ==
    IF image = <<>> THEN files ELSE files \cup {FreshFile(files)}

create_listing(db, user_id, brand, model, user_intent, image, decision, save_path) ==
    IF image = <<>> THEN Fail(400, "Empty image", db)
    ELSE IF FindDuplicate(db, user_id, brand, model, MD5(image)) # None
    THEN Fail(409, "Duplicate listing detected", db)
    ELSE Ok(InsertRow(db, NewRow(user_id, brand, model, user_intent, image,
                                 decision, save_path)),
            NextId(db))

----------------------------------------------------------------------------
(* Numbers: form fields, floats and rounding                                *)

\* A float is finite (the integers are the finite values used here;
\* arithmetic on them is exact), or one of the values float() also accepts,
\* inf and nan.
Fin(n) == [ kind |-> "fin", v |-> n ]

INF == [ kind |-> "inf", v |-> 0 ]

NAN == [ kind |-> "nan", v |-> 0 ]

\* The text of a form field: a numeral, or a word such as "inf", "nan", "abc".
Numeral(n) == [ text |-> "numeral", v |-> n ]

Word(w) == [ text |-> w, v |-> 0 ]

\* safe_float(s, default): float(str(s).strip()), the default when that raises
safe_float(s, default) ==
    IF s = None THEN default
    ELSE CASE s[1].text = "numeral" -> Some(Fin(s[1].v))
           [] s[1].text = "inf" -> Some(INF)
           [] s[1].text = "nan" -> Some(NAN)
           [] OTHER -> default

\* safe_int(s, default): int(float(...)); int() of inf or nan raises
safe_int(s, default) ==
    IF s = None THEN default
    ELSE IF s[1].text = "numeral" THEN s[1].v ELSE default

\* Python's (x or d) on an Optional[float]: None and 0.0 are falsy, nan is not.
OrElse(x, d) == IF x = None \/ x = Some(Fin(0)) THEN Fin(d) ELSE x[1]

\* int(num / den): truncation toward zero (den > 0).
Trunc(num, den) == IF num >= 0 THEN num \div den ELSE -((-num) \div den)

\* round(num / den): to the nearest integer, halves to the even one (den > 0).
RoundHalfEven(num, den) ==
    LET q == num \div den
        r == num - q * den
    IN  IF 2 * r < den THEN q
        ELSE IF 2 * r > den THEN q + 1
        ELSE IF q % 2 = 0 THEN q ELSE q + 1

\* round(num / den, -1): to the nearest multiple of ten.
Round10(num, den) == 10 * RoundHalfEven(num, 10 * den)

\* round((price / orig) * 40, 2), in hundredths of a kg; orig is a float.
Co2Saved(price, orig) ==
    CASE orig.kind = "nan" -> NAN
      [] orig.kind = "inf" -> Fin(0)
      [] orig.v > 0 -> Fin(RoundHalfEven(4000 * price, orig.v))
      [] OTHER -> Fin(RoundHalfEven(-4000 * price, -orig.v))

----------------------------------------------------------------------------
(* Estimation: vision detection, tabular model, rule-based fallbacks        *)

MOBILE == <<"m", "o", "b", "i", "l", "e">>

PHONE == <<"p", "h", "o", "n", "e">>

DEVICE == <<"d", "e", "v", "i", "c", "e">>

\* The coerced form fields the tiers read.
Payload(form) ==
    [ category       |-> IF form.category = <<>> THEN MOBILE ELSE form.category,
      age_months     |-> safe_float(form.age_months, None),
      original_price |-> safe_float(form.original_price, None),
      defect_count   |-> safe_int(form.defect_count, 0),
      battery_health |-> safe_float(form.battery_health, None),
      screen_issues  |-> safe_int(form.screen_issues, 0),
      body_issues    |-> safe_int(form.body_issues, 0) ]

\* The detections the vision block leaves: none when no model is loaded, and
\* none when the model raises (the except clause empties the list).
Detect(vision) == IF vision.state = "ok" THEN vision.detections ELSE <<>>

\* An unhandled exception: the request is answered 500.
Raise(exc) == [ error |-> exc ]

Result(method, detections, image_condition, predictions) ==
    [ error |-> "", method |-> method, detections |-> detections,
      image_condition |-> image_condition, predictions |-> predictions ]

Condition(label, confidence) == [ label |-> label, confidence |-> confidence ]

\* Confidences are in hundredths.
RECURSIVE SumConfidence(_)
SumConfidence(dets) ==
    IF dets = <<>> THEN 0 ELSE Head(dets).confidence + SumConfidence(Tail(dets))

IsDefect(d) == Lower(d.label) \notin {MOBILE, PHONE, DEVICE}

DefectDets(detections) == SelectSeq(detections, IsDefect)

\* ml_predict(payload): None when the models are not loaded and when anything
\* in it raises; else the price of the regressor and the class of the
\* classifier, with the CO2 figure of that price.
ml_predict(payload, ml) ==
    LET age  == OrElse(payload.age_months, 24)
        orig == OrElse(payload.original_price, 20000)
        den  == CASE orig.kind = "nan" -> Fin(1)
                  [] orig.kind = "fin" /\ orig.v < 1 -> Fin(1)
                  [] OTHER -> orig
    IN  IF ~ml.loaded THEN None
        ELSE IF age.kind # "fin" THEN None
        ELSE IF ml.fails THEN None
        ELSE Some([ price_suggest |-> ml.price,
                    decision      |-> IF ml.decision_cls = 1 THEN "sell"
                                      ELSE "recycle",
                    co2_saved_kg  |-> Co2Saved(ml.price, den) ])

LAPTOP == <<"l", "a", "p", "t", "o", "p">>

TABLET == <<"t", "a", "b", "l", "e", "t">>

TV == <<"t", "v">>

\* base_map.get(category.lower(), 60): months of life by category
BaseLife(category) ==
    CASE Lower(category) = MOBILE -> 48
      [] Lower(category) = LAPTOP -> 72
      [] Lower(category) = TABLET -> 60
      [] Lower(category) = TV -> 84
      [] OTHER -> 60

\* The condition the tabular branch reports: from the defect detections when
\* there are some, else from the issue counts of the form (ml_predict never
\* returns an image_condition of its own).
MlCondition(payload, detections) ==
    LET dd == DefectDets(detections)
        n  == Len(dd)
        S  == SumConfidence(dd)
    IN  IF n > 0
        THEN IF S < 40 * n
             THEN Condition("Fair", RoundHalfEven(120 * n + S, 2 * n))
             ELSE Condition("Poor", RoundHalfEven(40 * n + Min({50 * n, S}), n))
        ELSE IF payload.defect_count = 0 /\ payload.screen_issues = 0
                /\ payload.body_issues = 0
        THEN Condition("Good", 85)
        ELSE IF payload.defect_count <= 1
                /\ payload.screen_issues + payload.body_issues <= 1
        THEN Condition("Fair", 70)
        ELSE Condition("Poor", 60)

\* The price the tabular branch reports: at least int(orig_price * 0.05) and
\* 100; when that int() raises, the except clause keeps the model's price.
MlPrice(payload, pred_price) ==
    LET orig      == OrElse(payload.original_price, 20000)
        min_price == Max({Trunc(orig.v, 20), 100})
    IN  IF orig.kind = "fin"
        THEN IF pred_price <= 0 THEN min_price ELSE Max({pred_price, min_price})
        ELSE IF pred_price = 0 THEN 100 ELSE pred_price

\* if ml_output is not None: method "ml_model"
ml_model(payload, detections, ml_output) ==
    LET age == OrElse(payload.age_months, 24)
    IN  IF age.kind # "fin" THEN Raise("ValueError")
        ELSE Result("ml_model", detections, MlCondition(payload, detections),
                    [ price_suggest |-> MlPrice(payload, ml_output.price_suggest),
                      rul_months    |-> Max({1, BaseLife(payload.category) - age.v}),
                      decision      |-> ml_output.decision,
                      co2_saved_kg  |-> ml_output.co2_saved_kg ])

\* elif detections: method "vision_rule_based"
vision_rule_based(payload, detections) ==
    LET dd      == DefectDets(detections)
        n       == Max({1, Len(dd)})
        S       == SumConfidence(dd)
        age     == OrElse(payload.age_months, 24)
        orig    == OrElse(payload.original_price, 20000)
        degrade == Min({900 * n, 200 * n + 6 * S})
        price   == IF orig.kind = "nan" THEN 500
                   ELSE Max({500, Round10(orig.v * (1000 * n - degrade), 1000 * n)})
        rul     == Max({1, Trunc((48 - age.v) * 100 * n - 18 * S, 100 * n)})
    IN  IF orig.kind = "inf" THEN Raise("OverflowError")
        ELSE IF age.kind = "nan" THEN Raise("ValueError")
        ELSE IF age.kind = "inf" THEN Raise("OverflowError")
        ELSE Result("vision_rule_based", detections, Condition("Fair", 75),
                    [ price_suggest |-> price,
                      rul_months    |-> rul,
                      decision      |-> IF rul > 6 THEN "repair" ELSE "recycle",
                      co2_saved_kg  |-> Co2Saved(price, orig) ])

\* A plausible slip: the fallback applies the wear-score formulas of the
\* helper demo_predictions to the submitted specs.
specs_rule_based_Demo(payload) ==
    LET age     == OrElse(payload.age_months, 24).v
        orig    == OrElse(payload.original_price, 20000).v
        battery == OrElse(payload.battery_health, 80).v
        wear    == 3 * age + 50 * payload.screen_issues + 30 * payload.body_issues
                   + 70 * payload.defect_count + Max({0, (90 - battery) * 2})
        price   == Max({500, Round10(orig * (1000 - Min({850, wear})), 1000)})
        rul     == Max({1, 48 - age - 4 * payload.defect_count
                           - 6 * payload.screen_issues - 4 * payload.body_issues})
    IN  Result("specs_rule_based", <<>>,
               MlCondition(payload, <<>>),
               [ price_suggest |-> price,
                 rul_months    |-> rul,
                 decision      |-> IF rul >= 10 /\ 4 * price >= orig THEN "repair"
                                   ELSE IF 20 * price >= 3 * orig THEN "resell"
                                   ELSE "recycle",
                 co2_saved_kg  |-> Co2Saved(price, Fin(Max({1, orig}))) ])

\* else: method "specs_rule_based"
specs_rule_based(payload) ==
    LET orig  == OrElse(payload.original_price, 20000)
        price == IF orig.kind = "nan" THEN 500
                 ELSE Max({500, Round10(orig.v * 4, 10)})
    IN  IF orig.kind = "inf" THEN Raise("OverflowError")
        ELSE Result("specs_rule_based", <<>>, Condition("Fair", 70),
                    [ price_suggest |-> price,
                      rul_months    |-> 24,
                      decision      |-> "recycle",
                      co2_saved_kg  |-> Fin(RoundHalfEven(4000 * price, 20000)) ])

\* A plausible slip: the vision branch is tried before the tabular one.
estimate_VisionFirst(payload, vision, ml) ==
    LET detections == Detect(vision)
        ml_output  == ml_predict(payload, ml)
    IN  IF detections # <<>> THEN vision_rule_based(payload, detections)
        ELSE IF ml_output # None
        THEN ml_model(payload, detections, ml_output[1])
        ELSE specs_rule_based(payload)

\* The estimation block of create_listing: the vision block first, then
\* ml_predict, then the branch that builds the result.
estimate(payload, vision, ml) ==
    LET detections == Detect(vision)
        ml_output  == ml_predict(payload, ml)
    IN  IF ml_output # None
        THEN ml_model(payload, detections, ml_output[1])
        ELSE IF detections # <<>> THEN vision_rule_based(payload, detections)
        ELSE specs_rule_based(payload)

\* POST /listings/create with its form: refused before the estimation when
\* the image is empty or a duplicate; an exception in the estimation is
\* answered 500 and nothing is inserted; else the row is inserted with the
\* decision of the result.
create_listing_form(db, user_id, form, image, vision, ml, save_path) ==
    LET res == estimate(Payload(form), vision, ml)
    IN  IF image = <<>> \/ FindDuplicate(db, user_id, form.brand, form.model, MD5(image)) # None
        THEN create_listing(db, user_id, form.brand, form.model, form.user_intent, image, "", save_path)
        ELSE IF res.error # ""
        THEN Fail(500, res.error, db)
        ELSE create_listing(db, user_id, form.brand, form.model, form.user_intent, image, res.predictions.decision, save_path)

----------------------------------------------------------------------------
(* Partner lead handlers                                                   *)

\* db.query(Partner).filter(Partner.user_id == user.id).first()
require_partner(P, user_id) ==
    LET mine == { p \in DOMAIN P : P[p].user_id = user_id }
    IN  IF mine = {} THEN None ELSE Some(Min(mine))

\* A plausible slip: the lead is taken but the partner is not recorded.
partner_accept_lead_NoAssign(db, P, user_id, listing_id) ==
    LET partner == require_partner(P, user_id)
    IN  IF partner = None
        THEN Fail(403, "This account is not registered as a partner", db)
        ELSE IF listing_id \notin DOMAIN db
        THEN Fail(404, "Listing not found", db)
        ELSE IF db[listing_id].status = "completed"
        THEN Fail(400, "Listing already completed", db)
        ELSE Ok([db EXCEPT ![listing_id].status = "in_progress"], listing_id)

\* A plausible slip: the completed guard is left out.
partner_accept_lead_NoGuard(db, P, user_id, listing_id) ==
    LET partner == require_partner(P, user_id)
    IN  IF partner = None
        THEN Fail(403, "This account is not registered as a partner", db)
        ELSE IF listing_id \notin DOMAIN db
        THEN Fail(404, "Listing not found", db)
        ELSE Ok([db EXCEPT ![listing_id].status = "in_progress",
                           ![listing_id].chosen_partner_id = partner],
                listing_id)

\* POST /partners/leads/{listing_id}/accept
partner_accept_lead(db, P, user_id, listing_id) ==
    LET partner == require_partner(P, user_id)
    IN  IF partner = None
        THEN Fail(403, "This account is not registered as a partner", db)
        ELSE IF listing_id \notin DOMAIN db
        THEN Fail(404, "Listing not found", db)
        ELSE IF db[listing_id].status = "completed"
        THEN Fail(400, "Listing already completed", db)
        ELSE Ok([db EXCEPT ![listing_id].status = "in_progress",
                           ![listing_id].chosen_partner_id = partner],
                listing_id)

\* A plausible slip: the status is reverted but the assignment is kept.
partner_reject_lead_KeepsPartner(db, P, user_id, listing_id) ==
    LET partner == require_partner(P, user_id)
    IN  IF partner = None
        THEN Fail(403, "This account is not registered as a partner", db)
        ELSE IF listing_id \notin DOMAIN db
        THEN Fail(404, "Listing not found", db)
        ELSE IF db[listing_id].status = "completed"
        THEN Fail(400, "Listing already completed", db)
        ELSE IF db[listing_id].chosen_partner_id \notin {None, partner}
        THEN Fail(403, "Lead assigned to another partner", db)
        ELSE Ok([db EXCEPT ![listing_id].status = "created"], listing_id)

\* A plausible slip: the ownership guard is left out.
partner_reject_lead_NoOwner(db, P, user_id, listing_id) ==
    LET partner == require_partner(P, user_id)
    IN  IF partner = None
        THEN Fail(403, "This account is not registered as a partner", db)
        ELSE IF listing_id \notin DOMAIN db
        THEN Fail(404, "Listing not found", db)
        ELSE IF db[listing_id].status = "completed"
        THEN Fail(400, "Listing already completed", db)
        ELSE Ok([db EXCEPT ![listing_id].status = "created",
                           ![listing_id].chosen_partner_id = None],
                listing_id)

\* A plausible slip: the completed guard is left out.
partner_reject_lead_NoCompletedGuard(db, P, user_id, listing_id) ==
    LET partner == require_partner(P, user_id)
    IN  IF partner = None
        THEN Fail(403, "This account is not registered as a partner", db)
        ELSE IF listing_id \notin DOMAIN db
        THEN Fail(404, "Listing not found", db)
        ELSE IF db[listing_id].chosen_partner_id \notin {None, partner}
        THEN Fail(403, "Lead assigned to another partner", db)
        ELSE Ok([db EXCEPT ![listing_id].status = "created",
                           ![listing_id].chosen_partner_id = None],
                listing_id)

\* POST /partners/leads/{listing_id}/reject
partner_reject_lead(db, P, user_id, listing_id) ==
    LET partner == require_partner(P, user_id)
    IN  IF partner = None
        THEN Fail(403, "This account is not registered as a partner", db)
        ELSE IF listing_id \notin DOMAIN db
        THEN Fail(404, "Listing not found", db)
        ELSE IF db[listing_id].status = "completed"
        THEN Fail(400, "Listing already completed", db)
        ELSE IF db[listing_id].chosen_partner_id \notin {None, partner}
        THEN Fail(403, "Lead assigned to another partner", db)
        ELSE Ok([db EXCEPT ![listing_id].status = "created",
                           ![listing_id].chosen_partner_id = None],
                listing_id)

\* The request body CompleteLeadIn.
CompleteLeadIn(outcome, final_price, final_rul_months) ==
    [ outcome |-> outcome, final_price |-> final_price,
      final_rul_months |-> final_rul_months ]

\* A plausible slip: final_price is assigned even when it is omitted.
partner_complete_lead_AlwaysPrice(db, P, user_id, listing_id, payload) ==
    LET partner == require_partner(P, user_id)
    IN  IF partner = None
        THEN Fail(403, "This account is not registered as a partner", db)
        ELSE IF listing_id \notin DOMAIN db
        THEN Fail(404, "Listing not found", db)
        ELSE IF db[listing_id].chosen_partner_id \notin {None, partner}
        THEN Fail(403, "Lead assigned to another partner", db)
        ELSE Ok([db EXCEPT
                    ![listing_id].status = "completed",
                    ![listing_id].chosen_partner_id = partner,
                    ![listing_id].outcome = Some(NormText(payload.outcome)),
                    ![listing_id].final_price = payload.final_price,
                    ![listing_id].final_rul_months =
                        IF payload.final_rul_months # None
                        THEN payload.final_rul_months ELSE @],
                listing_id)

\* POST /partners/leads/{listing_id}/complete
partner_complete_lead(db, P, user_id, listing_id, payload) ==
    LET partner == require_partner(P, user_id)
    IN  IF partner = None
        THEN Fail(403, "This account is not registered as a partner", db)
        ELSE IF listing_id \notin DOMAIN db
        THEN Fail(404, "Listing not found", db)
        ELSE IF db[listing_id].chosen_partner_id \notin {None, partner}
        THEN Fail(403, "Lead assigned to another partner", db)
        ELSE Ok([db EXCEPT
                    ![listing_id].status = "completed",
                    ![listing_id].chosen_partner_id = partner,
                    ![listing_id].outcome = Some(NormText(payload.outcome)),
                    ![listing_id].final_price =
                        IF payload.final_price # None
                        THEN payload.final_price ELSE @,
                    ![listing_id].final_rul_months =
                        IF payload.final_rul_months # None
                        THEN payload.final_rul_months ELSE @],
                listing_id)

----------------------------------------------------------------------------
(* Partners: registration, verification and the search for nearby ones     *)

RECYCLER == <<"r", "e", "c", "y", "c", "l", "e", "r">>

EarthRadiusKm == 6371

\* Coordinates are in hundredths of a degree, distances and service radii
\* in metres.  All modelled points lie on one meridian, where the haversine
\* distance is the arc R * |lat2 - lat1| (in radians; pi taken as 355/113).
haversine_km(lat1, lon1, lat2, lon2) ==
    LET dlat == IF lat2 >= lat1 THEN lat2 - lat1 ELSE lat1 - lat2
    IN  (EarthRadiusKm * 355 * dlat) \div (18 * 113)

\* The Partner row register() adds for an account created with is_partner;
\* the columns it does not set take their defaults.
DefaultPartner(user_id, name) ==
    [ user_id           |-> user_id,
      org_name          |-> name,
      partner_type      |-> REPAIR,
      lat               |-> None,
      lon               |-> None,
      service_radius_km |-> Some(10000),
      contact_phone     |-> None,
      kyc_status        |-> "submitted" ]

PartnerRegisterIn(org_name, partner_type, lat, lon, service_radius_km, contact_phone) ==
    [ org_name |-> org_name, partner_type |-> partner_type, lat |-> lat, lon |-> lon,
      service_radius_km |-> service_radius_km, contact_phone |-> contact_phone ]

\* u.role = "partner", for the user of that id if there is one
Promote(U, user_id) ==
    IF user_id \in DOMAIN U THEN [U EXCEPT ![user_id].role = "partner"] ELSE U

\* What a partner handler does: the status it answers with and the table
\* "partners" it leaves.
PartnerResponse(code, detail, P) == [ code |-> code, detail |-> detail, partners |-> P ]

\* A plausible slip: an update keeps the verification the partner had.
register_partner_KeepsKyc(P, user_id, payload) ==
    LET existing == require_partner(P, user_id)
        ptype    == NormText(payload.partner_type)
        row      == [ user_id           |-> user_id,
                      org_name          |-> Strip(payload.org_name),
                      partner_type      |-> ptype,
                      lat               |-> payload.lat,
                      lon               |-> payload.lon,
                      service_radius_km |-> payload.service_radius_km,
                      contact_phone     |-> payload.contact_phone,
                      kyc_status        |-> "submitted" ]
    IN  IF ptype \notin {REPAIR, RECYCLER}
        THEN PartnerResponse(400, "partner_type must be 'repair' or 'recycler'", P)
        ELSE IF existing # None
        THEN PartnerResponse(200, "Partner profile updated",
                [P EXCEPT ![existing[1]] = [row EXCEPT !.kyc_status = P[existing[1]].kyc_status]])
        ELSE PartnerResponse(200, "Partner registered", InsertRow(P, row))

\* POST /partners/register
register_partner(P, user_id, payload) ==
    LET existing == require_partner(P, user_id)
        ptype    == NormText(payload.partner_type)
        row      == [ user_id           |-> user_id,
                      org_name          |-> Strip(payload.org_name),
                      partner_type      |-> ptype,
                      lat               |-> payload.lat,
                      lon               |-> payload.lon,
                      service_radius_km |-> payload.service_radius_km,
                      contact_phone     |-> payload.contact_phone,
                      kyc_status        |-> "submitted" ]
    IN  IF ptype \notin {REPAIR, RECYCLER}
        THEN PartnerResponse(400, "partner_type must be 'repair' or 'recycler'", P)
        ELSE IF existing # None
        THEN PartnerResponse(200, "Partner profile updated",
                             [P EXCEPT ![existing[1]] = row])
        ELSE PartnerResponse(200, "Partner registered", InsertRow(P, row))

\* A plausible slip: every authenticated user passes.
require_admin_Anyone(role) == TRUE

\* Depends(require_admin): the caller's role is admin.
require_admin(role) == role = "admin"

\* POST /admin/partners/{partner_id}/verify, called by a user of this role
admin_verify_partner(P, role, partner_id) ==
    IF ~require_admin(role) THEN PartnerResponse(403, "Admin access required", P)
    ELSE IF partner_id \notin DOMAIN P
    THEN PartnerResponse(404, "Partner not found", P)
    ELSE PartnerResponse(200, "ok", [P EXCEPT ![partner_id].kyc_status = "verified"])

\* A row of "users"; the password hash plays no part.
User(name, email, role) == [ name |-> name, email |-> email, role |-> role ]

\* The request body RegisterIn.
RegisterIn(name, email, password, is_partner) ==
    [ name |-> name, email |-> email, password |-> password, is_partner |-> is_partner ]

\* What register does: the status it answers with and the tables "users"
\* and "partners" it leaves.
AccountResponse(code, detail, U, P) ==
    [ code |-> code, detail |-> detail, users |-> U, partners |-> P ]

\* POST /auth/register
register(U, P, payload) ==
    LET name  == Strip(payload.name)
        email == Strip(Lower(payload.email))
    IN  IF name = <<>> \/ email = <<>> \/ payload.password = <<>>
        THEN AccountResponse(400, "Name, email, password required", U, P)
        ELSE IF \E u \in DOMAIN U : U[u].email = email
        THEN AccountResponse(400, "Email already registered", U, P)
        ELSE AccountResponse(200, "Account created",
                InsertRow(U, User(name, email, IF payload.is_partner THEN "partner" ELSE "customer")),
                IF payload.is_partner
                THEN InsertRow(P, DefaultPartner(NextId(U), name)) ELSE P)

\* One line of the partners CSV: the columns the loader reads, as text;
\* lat and lon are None where float() refuses the text.
CsvRow(name, shop, recycling, lat, lon, phone) ==
    [ name |-> name, shop |-> shop, recycling |-> recycling,
      lat |-> lat, lon |-> lon, phone |-> phone ]

\* w in s
Contains(s, w) ==
    \E i \in 0 .. Len(s) - Len(w) : SubSeq(s, i + 1, i + Len(w)) = w

\* The partner type the loader gives a line: recycler when "recycle" is in
\* recycling or in shop, or "recycling" in shop; repair otherwise.
CsvType(row) ==
    LET recycle == <<"r", "e", "c", "y", "c", "l", "e">>
    IN  IF \/ Contains(Lower(Strip(row.recycling)), recycle)
           \/ Contains(Lower(Strip(row.shop)), recycle)
           \/ Contains(Lower(Strip(row.shop)), <<"r", "e", "c", "y", "c", "l", "i", "n", "g">>)
        THEN RECYCLER ELSE REPAIR

\* abs(a - b) < 0.0005 degrees, a twentieth of a hundredth of a degree
Close(a, b) == 20 * (IF a >= b THEN a - b ELSE b - a) < 1

\* The first partner of that name is at the line's place or has its phone.
CsvKnown(P, org_name, row) ==
    LET named == { p \in DOMAIN P : P[p].org_name = org_name }
        maybe == P[Min(named)]
    IN  /\ named # {}
        /\ \/ /\ maybe.lat # None /\ maybe.lon # None
              /\ row.lat # None /\ row.lon # None
              /\ Close(maybe.lat[1], row.lat[1]) /\ Close(maybe.lon[1], row.lon[1])
           \/ /\ maybe.contact_phone # None /\ row.phone # ""
              /\ maybe.contact_phone = Some(row.phone)

\* The Partner row the loader adds for a line.
CsvPartner(org_name, row) ==
    [ user_id           |-> 0,
      org_name          |-> org_name,
      partner_type      |-> CsvType(row),
      lat               |-> row.lat,
      lon               |-> row.lon,
      service_radius_km |-> Some(10000),
      contact_phone     |-> IF row.phone = "" THEN None ELSE Some(row.phone),
      kyc_status        |-> "verified" ]

\* The loop of load_partners_from_csv over the lines of the file.
RECURSIVE load_partners_from_csv(_, _)
load_partners_from_csv(P, rows) ==
    IF rows = <<>> THEN P
    ELSE LET row      == Head(rows)
             org_name == Strip(row.name)
         IN  IF org_name = <<>> \/ CsvKnown(P, org_name, row)
             THEN load_partners_from_csv(P, Tail(rows))
             ELSE load_partners_from_csv(InsertRow(P, CsvPartner(org_name, row)), Tail(rows))

\* POST /admin/import-partners
admin_import_partners(P, role, rows) ==
    IF ~require_admin(role) THEN PartnerResponse(403, "Admin access required", P)
    ELSE PartnerResponse(200, "ok", load_partners_from_csv(P, rows))

\* POST /admin/partners/{partner_id}/reject
admin_reject_partner(P, role, partner_id) ==
    IF ~require_admin(role) THEN PartnerResponse(403, "Admin access required", P)
    ELSE IF partner_id \notin DOMAIN P
    THEN PartnerResponse(404, "Partner not found", P)
    ELSE PartnerResponse(200, "ok", [P EXCEPT ![partner_id].kyc_status = "rejected"])

\* The JSON body of verify-bulk: {"ids": [...]} and/or {"all": true}; an
\* absent key is None, and an id is a numeral or a word int() refuses.
BulkIn(ids, all) == [ ids |-> ids, all |-> all ]

\* The partners verify-bulk selects.
BulkRows(P, payload) ==
    IF payload.all = Some(TRUE) THEN DOMAIN P
    ELSE { p \in DOMAIN P : \E i \in 1 .. Len(payload.ids[1]) : payload.ids[1][i].v = p }

\* POST /admin/partners/verify-bulk
admin_verify_partners_bulk(P, role, payload) ==
    IF ~require_admin(role) THEN PartnerResponse(403, "Admin access required", P)
    ELSE IF payload.all # Some(TRUE) /\ payload.ids \in {None, Some(<<>>)}
    THEN PartnerResponse(400, "Provide 'ids' list or set 'all': true", P)
    ELSE IF /\ payload.all # Some(TRUE)
            /\ \E i \in 1 .. Len(payload.ids[1]) : payload.ids[1][i].text # "numeral"
    THEN PartnerResponse(400, "Invalid ids list", P)
    ELSE PartnerResponse(200, "ok",
            [ p \in DOMAIN P |->
                IF p \in BulkRows(P, payload) /\ P[p].kyc_status # "verified"
                THEN [P[p] EXCEPT !.kyc_status = "verified"] ELSE P[p] ])

----------------------------------------------------------------------------
(* Moderation of listings by the admin, and delete_listing                 *)

\* POST /admin/listings/{listing_id}/hide
admin_hide_listing(db, role, listing_id) ==
    IF ~require_admin(role) THEN Fail(403, "Admin access required", db)
    ELSE IF listing_id \notin DOMAIN db THEN Fail(404, "Listing not found", db)
    ELSE Ok([db EXCEPT ![listing_id].status = "hidden"], listing_id)

\* POST /admin/listings/{listing_id}/restore
admin_restore_listing(db, role, listing_id) ==
    IF ~require_admin(role) THEN Fail(403, "Admin access required", db)
    ELSE IF listing_id \notin DOMAIN db THEN Fail(404, "Listing not found", db)
    ELSE Ok([db EXCEPT ![listing_id].status = "created"], listing_id)

\* DELETE /admin/listings/{listing_id}: the row stays, marked removed
admin_remove_listing(db, role, listing_id) ==
    IF ~require_admin(role) THEN Fail(403, "Admin access required", db)
    ELSE IF listing_id \notin DOMAIN db THEN Fail(404, "Listing not found", db)
    ELSE Ok([db EXCEPT ![listing_id].status = "removed"], listing_id)

\* What delete_listing does: the status it answers with, the table
\* "listings" and the upload directory it leaves.
StoreResponse(code, detail, db, files) ==
    [ code |-> code, detail |-> detail, db |-> db, files |-> files ]

\* db.delete(row)
DeleteRow(db, id) == [ i \in DOMAIN db \ {id} |-> db[i] ]

\* A plausible slip: the ownership check is left out.
delete_listing_AnyUser(db, files, user_id, listing_id) ==
    IF listing_id \notin DOMAIN db
    THEN StoreResponse(404, "Listing not found", db, files)
    ELSE StoreResponse(200, "ok", DeleteRow(db, listing_id),
                       files \ {db[listing_id].image_path})

\* DELETE /listings/{listing_id}
delete_listing(db, files, user_id, listing_id) ==
    IF listing_id \notin DOMAIN db
    THEN StoreResponse(404, "Listing not found", db, files)
    ELSE IF db[listing_id].user_id # user_id
    THEN StoreResponse(403, "Not authorized to delete this listing", db, files)
    ELSE StoreResponse(200, "ok", DeleteRow(db, listing_id),
                       files \ {db[listing_id].image_path})

\* A plausible slip: the partner type is not filtered.
Eligible_AnyType(P, intent) == DOMAIN P

\* The partners the query selects: of the type the intent asks for, if any.
Eligible(P, intent) ==
    IF intent \in {REPAIR, RECYCLE}
    THEN { p \in DOMAIN P :
             P[p].partner_type = IF intent = REPAIR THEN REPAIR ELSE RECYCLER }
    ELSE DOMAIN P

\* q.all(): the selected rows in rowid order
RECURSIVE QueryAll(_)
QueryAll(ids) ==
    IF ids = {} THEN <<>> ELSE <<Min(ids)>> \o QueryAll(ids \ {Min(ids)})

\* The distance of a partner from the caller; None without coordinates.
Distance(lat, lon, row) ==
    IF row.lat = None \/ row.lon = None THEN None
    ELSE Some(haversine_km(lat, lon, row.lat[1], row.lon[1]))

\* A plausible slip: a partner exactly at its radius is excluded as well.
BeyondRadius_Inclusive(dist, row) ==
    dist # None /\ row.service_radius_km # None /\ dist[1] >= row.service_radius_km[1]

\* dist is not None and service_radius_km is not None and dist > radius
BeyondRadius(dist, row) ==
    dist # None /\ row.service_radius_km # None /\ dist[1] > row.service_radius_km[1]

\* One entry of the answer.
Summary(P, p, dist, phone) ==
    [ id |-> p, type |-> P[p].partner_type, lat |-> P[p].lat, lon |-> P[p].lon,
      distance_km |-> dist, contact_phone |-> phone ]

\* The entry built when the caller's position is known.
Located(P, p, lat, lon) ==
    Summary(P, p, Distance(lat, lon, P[p]),
            IF P[p].kyc_status = "verified" THEN P[p].contact_phone ELSE None)

\* x["distance_km"] or 0.0
DistOrZero(dist) == IF dist = None THEN 0 ELSE dist[1]

\* A plausible slip: no entry is put before another, the query order stays.
KeyLess_QueryOrder(a, b) == FALSE

\* The sort key (distance is None, distance or 0.0), compared as a tuple.
KeyLess(a, b) ==
    \/ a.distance_km # None /\ b.distance_km = None
    \/ /\ (a.distance_km = None) = (b.distance_km = None)
       /\ DistOrZero(a.distance_km) < DistOrZero(b.distance_km)

\* list.sort is stable: an entry goes after the entries whose key is not
\* greater than its own.
RECURSIVE Insert(_, _)
Insert(s, x) ==
    IF s = <<>> THEN <<x>>
    ELSE IF KeyLess(x, Head(s)) THEN <<x>> \o s
    ELSE <<Head(s)>> \o Insert(Tail(s), x)

RECURSIVE Sorted(_)
Sorted(s) ==
    IF s = <<>> THEN <<>>
    ELSE Insert(Sorted(SubSeq(s, 1, Len(s) - 1)), s[Len(s)])

\* out[:max_results]
\* A plausible slip: the answer is not cut off.
Take_All(s, n) == s

Take(s, n) == SubSeq(s, 1, Min({n, Len(s)}))

\* The entries of the partners within their own service radius, in query order.
RECURSIVE InRadius(_, _, _, _)
InRadius(P, ids, lat, lon) ==
    IF ids = <<>> THEN <<>>
    ELSE IF BeyondRadius(Distance(lat, lon, P[Head(ids)]), P[Head(ids)])
    THEN InRadius(P, Tail(ids), lat, lon)
    ELSE <<Located(P, Head(ids), lat, lon)>> \o InRadius(P, Tail(ids), lat, lon)

get_nearby_partners(P, lat, lon, intent, max_results) ==
    LET ids == QueryAll(Eligible(P, intent))
    IN  IF lat = None \/ lon = None
        THEN Take([ i \in 1 .. Len(ids) |->
                      Summary(P, ids[i], None, P[ids[i]].contact_phone) ],
                  max_results)
        ELSE Take(Sorted(InRadius(P, ids, lat[1], lon[1])), max_results)

----------------------------------------------------------------------------
(* State machine                                                           *)

Idle == [ pc |-> "idle", op |-> "none", code |-> 0, user_id |-> 0,
          listing_id |-> 0, row |-> None ]

\* The accounts: users 1 and 2 registered with is_partner, user 3 without,
\* and user 4 is the admin seeded at startup from ADMIN_EMAIL.
Accounts ==
    << User(<<"A", "n", "n">>, <<"a", "@", "x">>, "partner"),
       User(<<"B", "o", "b">>, <<"b", "@", "x">>, "partner"),
       User(<<"C", "y">>, <<"c", "@", "x">>, "customer"),
       User(<<"a", "d", "m", "i", "n">>, <<"r", "@", "x">>, "admin") >>

\* Users 1 and 2 have registered as partners 1 and 2; user 3 is a customer.
Init ==
    /\ listings = << >>
    /\ users = Accounts
    /\ partners = [ p \in {1, 2} |-> DefaultPartner(p, Accounts[p].name) ]
    /\ last = [ op |-> "none", code |-> 0, detail |-> "" ]
    /\ inflight = [ w \in Workers |-> Idle ]
    /\ estimation = [ pc |-> "idle" ]
    /\ uploads = {}

OptPrices == {None} \cup { Some(v) : v \in PriceInputs }

OptRuls == {None} \cup { Some(v) : v \in RulInputs }

\* One create_listing request, its form fields drawn from the given sets.
CreateListingFrom(U, B, M, IT, IMG, D) ==
    \E u \in U, b \in B, m \in M, it \in IT, img \in IMG, d \in D :
        LET r == create_listing(listings, u, b, m, it, img, d, FreshFile(uploads))
        IN  /\ Cardinality(DOMAIN r.db) <= MaxListings
            /\ Cardinality(SaveUpload(uploads, img)) <= MaxUploads
            /\ listings' = r.db
            /\ uploads' = SaveUpload(uploads, img)
            /\ last' = [ op |-> "create", code |-> r.code, detail |-> r.detail ]
            /\ UNCHANGED <<partners, inflight, estimation, users>>

\* Intake with every combination of submitter, brand, model and image.
CreateListing ==
    CreateListingFrom({1, 2}, BrandInputs, ModelInputs, {SELL}, ImageInputs,
                      {"recycle"})

\* Intake of the leads the partners then work on: one customer's devices.
CreateLead ==
    CreateListingFrom({3}, {<<"A", "p">>}, {<<"S", "1">>}, IntentInputs,
                      ImageInputs, Decisions)

PartnerAccept ==
    \E u \in Users, l \in ListingIds :
        LET r == partner_accept_lead(listings, partners, u, l)
        IN  /\ listings' = r.db
            /\ last' = [ op |-> "accept", code |-> r.code, detail |-> r.detail ]
            /\ UNCHANGED <<partners, inflight, estimation, uploads, users>>

PartnerReject ==
    \E u \in Users, l \in ListingIds :
        LET r == partner_reject_lead(listings, partners, u, l)
        IN  /\ listings' = r.db
            /\ last' = [ op |-> "reject", code |-> r.code, detail |-> r.detail ]
            /\ UNCHANGED <<partners, inflight, estimation, uploads, users>>

PartnerComplete ==
    \E u \in Users, l \in ListingIds, o \in OutcomeInputs,
       fp \in OptPrices, fr \in OptRuls :
        LET r == partner_complete_lead(listings, partners, u, l,
                                       CompleteLeadIn(o, fp, fr))
        IN  /\ listings' = r.db
            /\ last' = [ op |-> "complete", code |-> r.code, detail |-> r.detail ]
            /\ UNCHANGED <<partners, inflight, estimation, uploads, users>>

\* The listing lifecycle, one request at a time.
Next ==
    \/ CreateLead
    \/ PartnerAccept
    \/ PartnerReject
    \/ PartnerComplete

Spec == Init /\ [][Next]_vars

\* Listing intake alone, one request at a time.
NextIntake == CreateListing

SpecIntake == Init /\ [][NextIntake]_vars

----------------------------------------------------------------------------
(* One submission through the estimation pipeline                          *)

CategoryInputs == { MOBILE, <<"T", "V">> }

AgeInputs == { None, Some(Numeral(24)), Some(Numeral(60)), Some(Word("nan")) }

OrigPriceInputs ==
    { None, Some(Numeral(2010)), Some(Numeral(20000)), Some(Numeral(300000)),
      Some(Word("inf")) }

FormInputs ==
    [ category       : CategoryInputs,
      brand          : { <<"A", "p">> },
      model          : { <<"S", "1">> },
      age_months     : AgeInputs,
      original_price : OrigPriceInputs,
      defect_count   : { Some(Numeral(0)), Some(Numeral(2)) },
      battery_health : { Some(Numeral(80)) },
      screen_issues  : { Some(Numeral(0)), Some(Numeral(1)) },
      body_issues    : { Some(Numeral(0)) },
      user_intent    : IntentInputs ]

Detection(label, confidence) == [ label |-> label, confidence |-> confidence ]

CRACK == <<"c", "r", "a", "c", "k">>

\* What the vision block meets: no model loaded, a model that raises, and a
\* model that returns no box, one light defect, or the device and a defect.
VisionInputs ==
    { [ state |-> "unavailable", detections |-> <<>> ],
      [ state |-> "raises", detections |-> <<Detection(CRACK, 30)>> ],
      [ state |-> "ok", detections |-> <<>> ],
      [ state |-> "ok", detections |-> <<Detection(CRACK, 30)>> ],
      [ state |-> "ok",
        detections |-> <<Detection(<<"M", "o", "b", "i", "l", "e">>, 90),
                         Detection(CRACK, 80)>> ] }

\* What ml_predict meets: models not loaded, a prediction that raises, and
\* predictions with a zero, a negative, a low and a usual price.
MlInputs ==
    { [ loaded |-> FALSE, fails |-> FALSE, price |-> 0, decision_cls |-> 0 ],
      [ loaded |-> TRUE, fails |-> TRUE, price |-> 0, decision_cls |-> 0 ],
      [ loaded |-> TRUE, fails |-> FALSE, price |-> 0, decision_cls |-> 0 ],
      [ loaded |-> TRUE, fails |-> FALSE, price |-> -50, decision_cls |-> 1 ],
      [ loaded |-> TRUE, fails |-> FALSE, price |-> 9000, decision_cls |-> 1 ] }

InitEstimate ==
    /\ listings = << >>
    /\ partners = [ p \in {1, 2} |-> DefaultPartner(p, Accounts[p].name) ]
    /\ last = [ op |-> "none", code |-> 0, detail |-> "" ]
    /\ inflight = [ w \in Workers |-> Idle ]
    /\ uploads = {}
    /\ users = Accounts
    /\ estimation \in [ pc : {"submitted"}, user_id : {3}, form : FormInputs,
                        image : { <<>>, <<7>> }, vision : VisionInputs,
                        ml : MlInputs, result : {None} ]

\* The submission is handled: create_listing from the first line to the last.
CreateListingForm ==
    /\ estimation.pc = "submitted"
    /\ LET e == estimation
           r == create_listing_form(listings, e.user_id, e.form, e.image, e.vision, e.ml, FreshFile(uploads))
       IN  /\ listings' = r.db
           /\ uploads' = SaveUpload(uploads, e.image)
           /\ last' = [ op |-> "create", code |-> r.code, detail |-> r.detail ]
           /\ estimation' =
                 [ e EXCEPT !.pc = "done",
                            !.result = IF r.code \in {200, 500}
                                       THEN Some(estimate(Payload(e.form), e.vision, e.ml))
                                       ELSE None ]
    /\ UNCHANGED <<partners, inflight, users>>

NextEstimate == CreateListingForm

SpecEstimate == InitEstimate /\ [][NextEstimate]_vars

----------------------------------------------------------------------------
(* Partner profiles and searches                                           *)

\* Profiles sent to /partners/register: a repair shop 1111 m north of the
\* caller with a radius of exactly that, a recycler 11119 m away with a radius
\* of 10 km, a repair shop without coordinates, a recycler 2223 m away
\* without a radius, and a profile of an unknown type.
ProfileInputs ==
    { PartnerRegisterIn(<<"F", "i", "x", " ">>, <<"R", "e", "p", "a", "i", "r", " ">>, Some(1301), Some(7700), Some(1111), Some("91")),
      PartnerRegisterIn(<<"E", "c", "o">>, RECYCLER, Some(1310), Some(7700), Some(10000), Some("92")),
      PartnerRegisterIn(<<"F", "i", "x">>, REPAIR, None, None, Some(10000), Some("93")),
      PartnerRegisterIn(<<"E", "c", "o">>, RECYCLER, Some(1302), Some(7700), None, None),
      PartnerRegisterIn(<<"F", "i", "x">>, <<"s", "h", "o", "p">>, None, None, None, None) }

QueryLats == { None, Some(1300) }

QueryLons == { None, Some(7700) }

QueryIntents == { None, SELL, REPAIR, RECYCLE }

MaxResultsInputs == { 2, 10 }

RegisterPartner ==
    \E u \in Users, pr \in ProfileInputs :
        LET r == register_partner(partners, u, pr)
        IN  /\ partners' = r.partners
            /\ users' = IF r.code = 200 THEN Promote(users, u) ELSE users
            /\ last' = [ op |-> "register_partner", code |-> r.code, detail |-> r.detail ]
            /\ UNCHANGED <<listings, inflight, estimation, uploads>>

AdminVerifyPartner ==
    \E a \in Callers, p \in Users :
        LET r == admin_verify_partner(partners, users[a].role, p)
        IN  /\ partners' = r.partners
            /\ users' = IF r.code = 200 THEN Promote(users, partners[p].user_id) ELSE users
            /\ last' = [ op |-> "verify", code |-> r.code, detail |-> r.detail ]
            /\ UNCHANGED <<listings, inflight, estimation, uploads>>

\* One search, as GET /partners/nearby and create_listing make it.
PartnersNearby ==
    \E lat \in QueryLats, intent \in {SELL, REPAIR, RECYCLE}, n \in MaxResultsInputs :
        /\ last' = [ op |-> "nearby", code |-> 200, detail |-> "ok",
                     lat |-> lat, lon |-> Some(7700), intent |-> intent,
                     max_results |-> n,
                     items |-> get_nearby_partners(partners, lat, Some(7700), intent, n) ]
        /\ UNCHANGED <<listings, partners, inflight, estimation, uploads, users>>

NextNearby ==
    \/ RegisterPartner
    \/ AdminVerifyPartner
    \/ PartnersNearby

SpecNearby == Init /\ [][NextNearby]_vars

----------------------------------------------------------------------------
(* Every route that writes the table "partners"                            *)

AdminRejectPartner ==
    \E a \in Callers, p \in Users :
        LET r == admin_reject_partner(partners, users[a].role, p)
        IN  /\ partners' = r.partners
            /\ last' = [ op |-> "reject_partner", code |-> r.code, detail |-> r.detail ]
            /\ UNCHANGED <<listings, inflight, estimation, uploads, users>>

BulkInputs ==
    { BulkIn(None, None),
      BulkIn(Some(<<Numeral(2)>>), Some(FALSE)),
      BulkIn(Some(<<Numeral(1), Word("x")>>), None),
      BulkIn(None, Some(TRUE)) }

\* The users the bulk verification promotes: those of the rows it changes.
BulkPromoted(U, P, Q) ==
    [ u \in DOMAIN U |->
        IF \E p \in DOMAIN P : P[p].user_id = u /\ P[p] # Q[p]
        THEN [U[u] EXCEPT !.role = "partner"] ELSE U[u] ]

AdminVerifyBulk ==
    \E a \in Callers, payload \in BulkInputs :
        LET r == admin_verify_partners_bulk(partners, users[a].role, payload)
        IN  /\ partners' = r.partners
            /\ users' = BulkPromoted(users, partners, r.partners)
            /\ last' = [ op |-> "verify_bulk", code |-> r.code, detail |-> r.detail ]
            /\ UNCHANGED <<listings, inflight, estimation, uploads>>

RegisterInputs ==
    { RegisterIn(<<"D", "e", "e", " ">>, <<" ", "D", "@", "x">>, <<"p", "w">>, TRUE),
      RegisterIn(<<"D", "e", "e">>, <<"d", "@", "x">>, <<"p", "w">>, FALSE),
      RegisterIn(<<"A", "n", "n">>, <<"A", "@", "x">>, <<"p", "w">>, TRUE),
      RegisterIn(<<" ">>, <<"e", "@", "x">>, <<"p", "w">>, TRUE) }

Register ==
    \E payload \in RegisterInputs :
        LET r == register(users, partners, payload)
        IN  /\ Cardinality(DOMAIN r.users) <= MaxUsers
            /\ users' = r.users
            /\ partners' = r.partners
            /\ last' = [ op |-> "register", code |-> r.code, detail |-> r.detail ]
            /\ UNCHANGED <<listings, inflight, estimation, uploads>>

\* The profiles partners save in these runs.
ProfileEdits ==
    { PartnerRegisterIn(<<"F", "i", "x">>, REPAIR, Some(1301), Some(7700), Some(10000), Some("91")),
      PartnerRegisterIn(<<"F", "i", "x">>, <<"s", "h", "o", "p">>, None, None, None, None) }

EditProfile ==
    \E u \in Users, pr \in ProfileEdits :
        LET r == register_partner(partners, u, pr)
        IN  /\ Cardinality(DOMAIN r.partners) <= MaxPartners
            /\ partners' = r.partners
            /\ users' = IF r.code = 200 THEN Promote(users, u) ELSE users
            /\ last' = [ op |-> "register_partner", code |-> r.code, detail |-> r.detail ]
            /\ UNCHANGED <<listings, inflight, estimation, uploads>>

\* The partner files imported: two shops; a line without a name, then a
\* shop of the first file again, at another place.
CsvInputs ==
    { << CsvRow(<<"F", "i", "x">>, <<"r", "e", "p", "a", "i", "r">>, <<>>, Some(1301), Some(7700), "91"),
         CsvRow(<<"E", "c", "o", " ">>, <<>>, <<"Y", "e", "s", ";", "R", "e", "c", "y", "c", "l", "e">>, Some(1310), Some(7700), "") >>,
      << CsvRow(<<" ">>, <<>>, <<>>, None, None, "90"),
         CsvRow(<<"E", "c", "o">>, <<"r", "e", "c", "y", "c", "l", "i", "n", "g">>, <<>>, None, None, "") >> }

ImportPartners ==
    \E a \in Callers, rows \in CsvInputs :
        LET r == admin_import_partners(partners, users[a].role, rows)
        IN  /\ Cardinality(DOMAIN r.partners) <= MaxPartners
            /\ partners' = r.partners
            /\ last' = [ op |-> "import", code |-> r.code, detail |-> r.detail ]
            /\ UNCHANGED <<listings, inflight, estimation, uploads, users>>

\* One search by a caller at the usual position, for every type.
SearchNearby ==
    /\ last' = [ op |-> "nearby", code |-> 200, detail |-> "ok",
                 lat |-> Some(1300), lon |-> Some(7700), intent |-> SELL,
                 max_results |-> 10,
                 items |-> get_nearby_partners(partners, Some(1300), Some(7700), SELL, 10) ]
    /\ UNCHANGED <<listings, partners, inflight, estimation, uploads, users>>

NextPartners ==
    \/ Register
    \/ EditProfile
    \/ AdminVerifyPartner
    \/ AdminRejectPartner
    \/ AdminVerifyBulk
    \/ ImportPartners
    \/ SearchNearby

SpecPartners == Init /\ [][NextPartners]_vars

----------------------------------------------------------------------------
(* The lifecycle with the admin's moderation and the owner's delete        *)

\* Intake of the one device the moderation runs are about.
CreateOwned ==
    CreateListingFrom({3}, {<<"A", "p">>}, {<<"S", "1">>}, {SELL}, {<<7>>},
                      Decisions)

\* The reports a partner closes a lead with.
CompletionInputs ==
    { CompleteLeadIn(<<"s", "o", "l", "d">>, Some(900), None),
      CompleteLeadIn(<<"R", "e", "c", "y", "c", "l", "e", "d", " ">>, Some(500), Some(6)) }

CompleteLead ==
    \E u \in Users, l \in ListingIds, payload \in CompletionInputs :
        LET r == partner_complete_lead(listings, partners, u, l, payload)
        IN  /\ listings' = r.db
            /\ last' = [ op |-> "complete", code |-> r.code, detail |-> r.detail ]
            /\ UNCHANGED <<partners, inflight, estimation, uploads, users>>

AdminHide ==
    \E a \in Callers, l \in ListingIds :
        LET r == admin_hide_listing(listings, users[a].role, l)
        IN  /\ listings' = r.db
            /\ last' = [ op |-> "hide", code |-> r.code, detail |-> r.detail ]
            /\ UNCHANGED <<partners, inflight, estimation, uploads, users>>

AdminRestore ==
    \E a \in Callers, l \in ListingIds :
        LET r == admin_restore_listing(listings, users[a].role, l)
        IN  /\ listings' = r.db
            /\ last' = [ op |-> "restore", code |-> r.code, detail |-> r.detail ]
            /\ UNCHANGED <<partners, inflight, estimation, uploads, users>>

AdminRemove ==
    \E a \in Callers, l \in ListingIds :
        LET r == admin_remove_listing(listings, users[a].role, l)
        IN  /\ listings' = r.db
            /\ last' = [ op |-> "remove", code |-> r.code, detail |-> r.detail ]
            /\ UNCHANGED <<partners, inflight, estimation, uploads, users>>

DeleteListing ==
    \E u \in Users, l \in ListingIds :
        LET r == delete_listing(listings, uploads, u, l)
        IN  /\ listings' = r.db
            /\ uploads' = r.files
            /\ last' = [ op |-> "delete", code |-> r.code, detail |-> r.detail ]
            /\ UNCHANGED <<partners, inflight, estimation, users>>

NextModeration ==
    \/ CreateOwned
    \/ PartnerAccept
    \/ PartnerReject
    \/ CompleteLead
    \/ AdminHide
    \/ AdminRestore
    \/ AdminRemove
    \/ DeleteListing
    \/ AdminVerifyPartner
    \/ AdminRejectPartner
    \/ AdminVerifyBulk

SpecModeration == Init /\ [][NextModeration]_vars

----------------------------------------------------------------------------
(* Requests in parallel: each handler is a query, then a commit            *)

\* The UPDATE the session flushes at commit: only the columns the handler
\* changed on the row it loaded are written, to the row as it is then.
Flush(db, listing_id, loaded, changed) ==
    [db EXCEPT ![listing_id] =
        [ f \in DOMAIN changed |->
            IF changed[f] # loaded[f] THEN changed[f] ELSE db[listing_id][f] ]]

Finished(op, code, user_id, listing_id, row) ==
    [ pc |-> "done", op |-> op, code |-> code, user_id |-> user_id,
      listing_id |-> listing_id, row |-> row ]

\* create_listing up to its duplicate query: the row is built, not yet stored.
CreateQuery(w) ==
    \E u \in {3}, b \in BrandInputs, img \in {<<7>>} :
        LET r == create_listing(listings, u, b, <<"S", "1">>, SELL, img, "recycle", FreshFile(uploads))
        IN  /\ inflight[w].pc = "idle"
            /\ Cardinality(SaveUpload(uploads, img)) <= MaxUploads
            /\ uploads' = SaveUpload(uploads, img)
            /\ inflight' = [inflight EXCEPT ![w] =
                  IF r.code = 200
                  THEN [ pc |-> "create_commit", op |-> "create", code |-> 0,
                         user_id |-> u, listing_id |-> 0,
                         row |-> Some(NewRow(u, b, <<"S", "1">>, SELL, img,
                                             "recycle", FreshFile(uploads))) ]
                  ELSE Finished("create", r.code, u, 0, None)]
            /\ UNCHANGED <<listings, partners, last, estimation, users>>

\* create_listing from db.add(row) on: the insert has nothing to refuse it.
CreateCommit(w) ==
    /\ inflight[w].pc = "create_commit"
    /\ Cardinality(DOMAIN listings) < MaxListings
    /\ listings' = InsertRow(listings, inflight[w].row[1])
    /\ inflight' = [inflight EXCEPT ![w] =
          Finished("create", 200, inflight[w].user_id, NextId(listings),
                   inflight[w].row)]
    /\ UNCHANGED <<partners, last, estimation, uploads, users>>

\* partner_accept_lead up to its guards, on the row as loaded.
AcceptQuery(w) ==
    \E u \in Users, l \in ListingIds :
        LET r == partner_accept_lead(listings, partners, u, l)
        IN  /\ inflight[w].pc = "idle"
            /\ inflight' = [inflight EXCEPT ![w] =
                  IF r.code = 200
                  THEN [ pc |-> "accept_commit", op |-> "accept", code |-> 0,
                         user_id |-> u, listing_id |-> l,
                         row |-> Some(listings[l]) ]
                  ELSE Finished("accept", r.code, u, l, None)]
            /\ UNCHANGED <<listings, partners, last, estimation, uploads, users>>

\* partner_accept_lead's two assignments and db.commit().
AcceptCommit(w) ==
    LET u == inflight[w].user_id
        l == inflight[w].listing_id
        loaded == inflight[w].row[1]
        r == partner_accept_lead([listings EXCEPT ![l] = loaded], partners,
                                 u, l)
    IN  /\ inflight[w].pc = "accept_commit"
        /\ listings' = Flush(listings, l, loaded, r.db[l])
        /\ inflight' = [inflight EXCEPT ![w] =
              Finished("accept", 200, u, l, inflight[w].row)]
        /\ UNCHANGED <<partners, last, estimation, uploads, users>>

\* The response is sent and the worker takes the next request.
Return(w) ==
    /\ inflight[w].pc = "done"
    /\ inflight' = [inflight EXCEPT ![w] = Idle]
    /\ UNCHANGED <<listings, partners, last, estimation, uploads, users>>

NextRace ==
    \E w \in Workers :
        \/ CreateQuery(w)
        \/ CreateCommit(w)
        \/ AcceptQuery(w)
        \/ AcceptCommit(w)
        \/ Return(w)

SpecRace == Init /\ [][NextRace]_vars

----------------------------------------------------------------------------
(* Deduplication guard: C1 - C3                                            *)

\* Two texts are equal up to case and surrounding whitespace.
SameText(a, b) == Lower(Strip(a)) = Lower(Strip(b))

\* Listing i is what user u stored for this brand, model and image.
IsSubmission(i, u, b, m, img) ==
    /\ listings[i].user_id = u
    /\ SameText(listings[i].brand, b)
    /\ SameText(listings[i].model, m)
    /\ listings[i].image_md5 = MD5(img)

\* C1: while a listing of user U for a brand, model and image exists, a
\* create_listing by U with the same image and the same brand and model up to
\* case and surrounding whitespace answers 409, stores no listing and
\* returns no listing id.
C1_DuplicateRejected ==
    \A u \in Users, b \in BrandInputs, m \in ModelInputs, it \in IntentInputs,
       img \in ImageInputs \ {<<>>}, d \in Decisions :
        (\E i \in DOMAIN listings : IsSubmission(i, u, b, m, img))
        => LET r == create_listing(listings, u, b, m, it, img, d, FreshFile(uploads))
           IN  r.code = 409 /\ r.db = listings /\ r.listing_id = None

\* A second submission was answered 409 and the first is still the only row,
\* stored under a brand that needs trimming and lower-casing.
C1_Witness ==
    /\ last.op = "create" /\ last.code = 409
    /\ DOMAIN listings = {1}
    /\ listings[1].brand = <<" ", "a", "p", " ">>

\* The rows of the listings table that belong to user u.
OwnRows(db, u) ==
    [ i \in { j \in DOMAIN db : db[j].user_id = u } |-> db[i] ]

\* C2: what other users have submitted has no effect on a user's
\* create_listing: it answers as it would with only the user's own rows in
\* the table, and a user with no row of their own is accepted and gets a new
\* row, even when another user already stored the same image, brand, model.
C2_UsersNeverCollide ==
    \A u \in Users, b \in BrandInputs, m \in ModelInputs, it \in IntentInputs,
       img \in ImageInputs \ {<<>>}, d \in Decisions :
        LET r == create_listing(listings, u, b, m, it, img, d, FreshFile(uploads))
            alone == create_listing(OwnRows(listings, u), u, b, m, it, img, d, FreshFile(uploads))
        IN  /\ r.code = alone.code
            /\ OwnRows(listings, u) = << >>
               => /\ r.code = 200
                  /\ DOMAIN r.db = DOMAIN listings \cup {r.listing_id[1]}
                  /\ r.listing_id[1] \notin DOMAIN listings
                  /\ r.db[r.listing_id[1]].user_id = u

\* Two users each hold a listing of the same image, brand and model.
C2_Witness ==
    /\ last.op = "create" /\ last.code = 200
    /\ \E i, j \in DOMAIN listings :
        /\ listings[i].user_id # listings[j].user_id
        /\ listings[i].image_md5 = listings[j].image_md5
        /\ listings[i].brand = listings[j].brand
        /\ listings[i].model = listings[j].model

\* C3: no two stored listings have the same (user_id, dedupe_key), also when
\* two create_listing requests of one user run their duplicate query before
\* either commits.
C3_UniqueKeyPerUser ==
    \A i, j \in DOMAIN listings :
        (/\ listings[i].user_id = listings[j].user_id
         /\ listings[i].dedupe_key = listings[j].dedupe_key) => i = j

----------------------------------------------------------------------------
(* Partner lead handlers: C4 - C10                                         *)

PartnerUsers == { u \in Users : require_partner(partners, u) # None }

\* C4: once a lead is in progress for partner A, an accept by another
\* partner B is refused and the lead stays as it is.
C4_SecondAcceptRefused ==
    \A u \in PartnerUsers, l \in DOMAIN listings :
        (/\ listings[l].status = "in_progress"
         /\ listings[l].chosen_partner_id \notin
                {None, require_partner(partners, u)})
        => LET r == partner_accept_lead(listings, partners, u, l)
           IN  r.code # 200 /\ r.db = listings

\* Worker w has answered 200 to an accept whose query saw the lead unassigned.
WonAccept(w) ==
    /\ inflight[w].pc = "done" /\ inflight[w].op = "accept"
    /\ inflight[w].code = 200
    /\ inflight[w].row[1].chosen_partner_id = None

\* C5: of two accepts by different partners racing for one unassigned lead,
\* only one is answered 200.
C5_OneAcceptWins ==
    \A w1, w2 \in Workers :
        (/\ WonAccept(w1) /\ WonAccept(w2)
         /\ inflight[w1].listing_id = inflight[w2].listing_id)
        => inflight[w1].user_id = inflight[w2].user_id

\* C6: an accept on a completed listing fails for every caller and leaves
\* the listing (status, chosen_partner_id, outcome, final_price,
\* final_rul_months) as it is.
C6_AcceptCompletedFails ==
    \A u \in Users, l \in DOMAIN listings :
        listings[l].status = "completed"
        => LET r == partner_accept_lead(listings, partners, u, l)
           IN  r.code # 200 /\ r.db = listings

C6_Witness ==
    /\ last.op = "accept" /\ last.code = 400
    /\ \E l \in DOMAIN listings :
        listings[l].status = "completed" /\ listings[l].outcome # None

\* C7: a reject by a partner on a listing that is not completed and is
\* unassigned or assigned to the caller succeeds, and every successful
\* reject leaves status = created and chosen_partner_id = None.
C7_RejectResets ==
    \A u \in Users, l \in DOMAIN listings :
        LET r == partner_reject_lead(listings, partners, u, l)
            p == require_partner(partners, u)
        IN  /\ (/\ p # None
                /\ listings[l].status # "completed"
                /\ listings[l].chosen_partner_id \in {None, p})
               => r.code = 200
            /\ r.code = 200
               => /\ r.db[l].status = "created"
                  /\ r.db[l].chosen_partner_id = None

\* A repair listing starts shared_with_partner: one that is created and
\* unassigned right after a reject was answered 200 has been reset by it.
C7_Witness ==
    /\ last.op = "reject" /\ last.code = 200
    /\ \E l \in DOMAIN listings :
        /\ listings[l].intent = REPAIR
        /\ listings[l].status = "created"
        /\ listings[l].chosen_partner_id = None

\* C8: a reject on a completed listing, or on one assigned to a partner
\* other than the caller, fails and changes no field of any listing.
C8_RejectRefused ==
    \A u \in PartnerUsers, l \in DOMAIN listings :
        (\/ listings[l].status = "completed"
         \/ listings[l].chosen_partner_id \notin
                {None, require_partner(partners, u)})
        => LET r == partner_reject_lead(listings, partners, u, l)
           IN  r.code # 200 /\ r.db = listings

C8_Witness ==
    /\ last.op = "reject" /\ last.code = 403
    /\ last.detail = "Lead assigned to another partner"
    /\ \E l \in DOMAIN listings :
        listings[l].status = "in_progress"

\* What a complete by partner p leaves in row l, given what the row held
\* and the outcome text the row is to record.
CompletedRow(before, p, recorded, fp, fr) ==
    [ before EXCEPT
        !.status = "completed",
        !.chosen_partner_id = p,
        !.outcome = Some(recorded),
        !.final_price = IF fp = None THEN before.final_price ELSE fp,
        !.final_rul_months = IF fr = None THEN before.final_rul_months
                             ELSE fr ]

\* The complete requests of partners on existing listings behave as told:
\* 403 and no change when the lead is another partner's, and otherwise the
\* row is completed for the caller, its outcome being the supplied text
\* itself or, when trimmed is TRUE, that text trimmed and lower-cased.
CompleteBehaves(trimmed) ==
    \A u \in PartnerUsers, l \in DOMAIN listings, o \in OutcomeInputs,
       fp \in OptPrices, fr \in OptRuls :
        LET r == partner_complete_lead(listings, partners, u, l,
                                       CompleteLeadIn(o, fp, fr))
            p == require_partner(partners, u)
            recorded == IF trimmed THEN Lower(Strip(o)) ELSE o
        IN  IF listings[l].chosen_partner_id \notin {None, p}
            THEN r.code = 403 /\ r.db = listings
            ELSE /\ r.code = 200
                 /\ r.db = [listings EXCEPT ![l] =
                        CompletedRow(listings[l], p, recorded, fp, fr)]

\* C9 as claimed: the outcome recorded is the outcome supplied.
C9_OutcomeAsSupplied == CompleteBehaves(FALSE)

\* C9 as amended: called by a partner on an existing listing, a complete
\* fails with 403 and changes nothing when chosen_partner_id is another
\* partner's; otherwise it sets status = completed, chosen_partner_id = the
\* caller's partner id, outcome = the supplied outcome trimmed and
\* lower-cased, and overwrites final_price and final_rul_months only when a
\* value is supplied.
C9_CompleteRecords == CompleteBehaves(TRUE)

\* A complete without a final RUL was answered 200: the price it supplied is
\* stored, the RUL is still unset and the outcome is stored trimmed.
C9_Witness ==
    /\ last.op = "complete" /\ last.code = 200
    /\ \E l \in DOMAIN listings :
        /\ listings[l].status = "completed"
        /\ listings[l].outcome = Some(<<"s", "o", "l", "d">>)
        /\ listings[l].final_price = Some(900)
        /\ listings[l].final_rul_months = None

\* C10: completed is terminal for the partner-driven flow: on a completed
\* listing every accept and every reject fails, and no step that handles a
\* partner accept, reject or complete takes a listing out of completed.
C10_CompletedTerminal ==
    [][ /\ \A u \in Users, l \in DOMAIN listings :
            listings[l].status = "completed"
            => /\ partner_accept_lead(listings, partners, u, l).code # 200
               /\ partner_reject_lead(listings, partners, u, l).code # 200
        /\ last'.op \in {"accept", "reject", "complete"}
           => \A l \in DOMAIN listings :
                listings[l].status = "completed"
                => /\ l \in DOMAIN listings'
                   /\ listings'[l].status = "completed" ]_vars

C10_Witness ==
    /\ last.op = "reject" /\ last.code = 400
    /\ \E l \in DOMAIN listings : listings[l].status = "completed"

----------------------------------------------------------------------------
(* C11, C12: initial status and the way to completed                       *)

\* user_intent form values: valid, padded, upper-case, unknown and empty.
IntentCases ==
    { SELL, <<" ", "R", "e", "p", "a", "i", "r">>, RECYCLE,
      <<"R", "E", "C", "Y", "C", "L", "E", " ">>, <<"b", "u", "y">>, <<>> }

\* Every decision an estimation tier can put in predictions.decision.
DecisionCases == { "repair", "recycle", "sell" }

\* C11: a listing created by create_listing has status shared_with_partner
\* exactly when its normalised intent is repair or recycle or the estimation
\* result's decision is "repair", else created; an intent outside
\* {sell, repair, recycle} is stored as sell; chosen_partner_id, outcome,
\* final_price and final_rul_months are null.
C11_InitialStatus ==
    \A u \in Users, it \in IntentCases, img \in ImageInputs, d \in DecisionCases :
        LET r == create_listing(listings, u, <<"A", "p">>, <<"S", "1">>, it, img, d, FreshFile(uploads))
            t == Lower(Strip(it))
            n == IF t \in {SELL, REPAIR, RECYCLE} THEN t ELSE SELL
        IN  r.code = 200 =>
                LET row == r.db[r.listing_id[1]]
                IN  /\ row.intent = n
                    /\ row.status = "shared_with_partner"
                            <=> (n \in {REPAIR, RECYCLE} \/ d = "repair")
                    /\ row.status \in {"shared_with_partner", "created"}
                    /\ row.chosen_partner_id = None
                    /\ row.outcome = None
                    /\ row.final_price = None
                    /\ row.final_rul_months = None

\* A sell listing was just created and shared because the decision is repair.
C11_Witness ==
    /\ last.op = "create" /\ last.code = 200
    /\ \E l \in DOMAIN listings :
          /\ listings[l].intent = SELL
          /\ listings[l].status = "shared_with_partner"
          /\ listings[l].chosen_partner_id = None

\* C12: a listing's status becomes completed only by a complete action taken
\* while the listing is in_progress with chosen_partner_id equal to the
\* completing partner; a listing that was never accepted is not completed.
C12_CompleteOnlyAfterAccept ==
    [][ \A l \in DOMAIN listings :
          ( /\ l \in DOMAIN listings'
            /\ listings[l].status # "completed"
            /\ listings'[l].status = "completed" )
          => /\ last'.op = "complete"
             /\ listings[l].status = "in_progress"
             /\ listings[l].chosen_partner_id # None
             /\ listings'[l].chosen_partner_id = listings[l].chosen_partner_id
      ]_vars

----------------------------------------------------------------------------
(* Estimation: C13 - C16                                                   *)

\* The submission was handled and the estimation returned a result.
Estimated ==
    /\ estimation.pc = "done"
    /\ estimation.result # None
    /\ estimation.result[1].error = ""

EstPayload == Payload(estimation.form)

EstResult == estimation.result[1]

VisionProduced == Detect(estimation.vision) # <<>>

TabularProduced == ml_predict(EstPayload, estimation.ml) # None

\* C13 as stated: the tiers are used in the order vision, tabular,
\* rule-based, the first that succeeds produces the predictions and method
\* names it.
C13_VisionTabularRules ==
    Estimated =>
        EstResult.method =
            IF VisionProduced THEN "vision_rule_based"
            ELSE IF TabularProduced THEN "ml_model"
            ELSE "specs_rule_based"

\* C13 amended: the predictions come from the tabular model whenever
\* ml_predict returns an output, else from the vision rule when there are
\* detections, else from the specs fallback, and method names that branch.
C13_TabularVisionRules ==
    Estimated =>
        /\ EstResult.method =
                IF TabularProduced THEN "ml_model"
                ELSE IF VisionProduced THEN "vision_rule_based"
                ELSE "specs_rule_based"
        /\ EstResult.method = "ml_model" =>
                /\ EstResult.predictions.decision =
                        IF estimation.ml.decision_cls = 1 THEN "sell" ELSE "recycle"
                /\ EstResult.predictions.price_suggest >= estimation.ml.price
                /\ EstResult.detections = Detect(estimation.vision)
        /\ EstResult.method = "vision_rule_based" =>
                /\ EstResult.image_condition = Condition("Fair", 75)
                /\ EstResult.detections = estimation.vision.detections
        /\ EstResult.method = "specs_rule_based" =>
                /\ EstResult.predictions.rul_months = 24
                /\ EstResult.detections = <<>>

\* Vision found defects and the tabular model predicted: method is ml_model.
C13_Witness ==
    /\ Estimated
    /\ VisionProduced
    /\ estimation.ml.loaded /\ ~estimation.ml.fails
    /\ EstResult.method = "ml_model"

\* C14: every non-duplicate submission with a non-empty image gets a result
\* with predictions and an image_condition, whatever the vision and tabular
\* models do; no failure is surfaced to the caller.
C14_AlwaysAResult ==
    ( /\ estimation.pc = "done"
      /\ estimation.image # <<>>
      /\ last.code # 409 )
    => /\ last.code = 200
       /\ Estimated
       /\ EstResult.predictions.decision \in DecisionCases
       /\ EstResult.image_condition.label \in {"Good", "Fair", "Poor"}

\* C15: whichever tier produced the result, for a positive integer
\* original_price, price_suggest >= max(100, 0.05 * original_price).
C15_PriceFloor ==
    ( /\ Estimated
      /\ EstPayload.original_price # None
      /\ EstPayload.original_price[1].kind = "fin"
      /\ EstPayload.original_price[1].v > 0 )
    => /\ EstResult.predictions.price_suggest >= 100
       /\ 20 * EstResult.predictions.price_suggest >= EstPayload.original_price[1].v

\* The scenario: a mobile, 24 months old, bought for 20000, battery 80, no
\* defect or issue, with neither model loaded.
Scenario ==
    /\ Estimated
    /\ estimation.vision.state = "unavailable"
    /\ ~estimation.ml.loaded
    /\ EstPayload.category = MOBILE
    /\ EstPayload.age_months = Some(Fin(24))
    /\ EstPayload.original_price = Some(Fin(20000))
    /\ EstPayload.battery_health = Some(Fin(80))
    /\ EstPayload.defect_count = 0
    /\ EstPayload.screen_issues = 0
    /\ EstPayload.body_issues = 0

----------------------------------------------------------------------------
(* Nearby partners: C17 - C20                                              *)

\* The partner ids of an answer.
Ids(items) == { items[i].id : i \in 1 .. Len(items) }

\* The caller's position is known.
Known(lat, lon) == lat # None /\ lon # None

\* The partner has coordinates and lies farther from the caller than its own
\* service radius.
TooFar(p, lat, lon) ==
    /\ partners[p].lat # None /\ partners[p].lon # None
    /\ partners[p].service_radius_km # None
    /\ haversine_km(lat[1], lon[1], partners[p].lat[1], partners[p].lon[1])
         > partners[p].service_radius_km[1]

\* The partner is of the type the intent asks for.
TypeAsked(p, intent) ==
    /\ intent = REPAIR => partners[p].partner_type = REPAIR
    /\ intent = RECYCLE => partners[p].partner_type = RECYCLER

\* The last request was a search and the table is as the search saw it.
Searched ==
    /\ last.op = "nearby"
    /\ last.items = get_nearby_partners(partners, last.lat, last.lon, last.intent, last.max_results)

\* C17: with intent repair every returned partner is of type repair, with
\* intent recycle of type recycler, and with intent sell or no intent
\* partners of every type are eligible (returned unless too far or cut off).
C17_TypeFilter ==
    \A lat \in QueryLats, lon \in QueryLons, n \in MaxResultsInputs :
        /\ \A i \in Ids(get_nearby_partners(partners, lat, lon, REPAIR, n)) :
              partners[i].partner_type = REPAIR
        /\ \A i \in Ids(get_nearby_partners(partners, lat, lon, RECYCLE, n)) :
              partners[i].partner_type = RECYCLER
        /\ \A intent \in {None, SELL}, p \in DOMAIN partners :
              ( /\ n >= Cardinality(DOMAIN partners)
                /\ ~(Known(lat, lon) /\ TooFar(p, lat, lon)) )
              => p \in Ids(get_nearby_partners(partners, lat, lon, intent, n))

\* A search for repair left a recycler out and returned a repair partner.
C17_Witness ==
    /\ Searched
    /\ last.intent = REPAIR
    /\ last.items # <<>>
    /\ \E p \in DOMAIN partners :
          partners[p].partner_type = RECYCLER /\ ~TooFar(p, Some(1300), Some(7700))

\* The known-distance entries come first, in ascending distance, then the
\* unknown ones; entries with the same key are in query (id) order.
Ordered(items) ==
    \A i, j \in 1 .. Len(items) :
        i < j =>
            /\ items[i].distance_km = None => items[j].distance_km = None
            /\ (items[i].distance_km # None /\ items[j].distance_km # None)
                   => items[i].distance_km[1] <= items[j].distance_km[1]
            /\ items[i].distance_km = items[j].distance_km
                   => items[i].id < items[j].id

\* C18: with the caller's position known, the answer is the first
\* max_results of the eligible partners, known distances first and
\* ascending, unknown ones last, ties in query order; no partner left out by
\* the truncation is nearer than a returned one.
C18_NearestFirst ==
    \A intent \in QueryIntents, n \in MaxResultsInputs :
        LET lat   == Some(1300)
            lon   == Some(7700)
            items == get_nearby_partners(partners, lat, lon, intent, n)
            S     == { p \in DOMAIN partners :
                         TypeAsked(p, intent) /\ ~TooFar(p, lat, lon) }
        IN  /\ Ids(items) \subseteq S
            /\ Cardinality(Ids(items)) = Len(items)
            /\ Len(items) = Min({n, Cardinality(S)})
            /\ \A i \in 1 .. Len(items) :
                  items[i].distance_km = Distance(lat[1], lon[1], partners[items[i].id])
            /\ Ordered(items)
            /\ \A p \in S \ Ids(items), i \in 1 .. Len(items) :
                  LET d == Distance(lat[1], lon[1], partners[p])
                  IN  d # None =>
                        /\ items[i].distance_km # None
                        /\ items[i].distance_km[1] <= d[1]

\* A search returned two partners at different distances, the nearer one of
\* them registered later, and cut a third eligible partner off.
C18_Witness ==
    /\ Searched
    /\ last.lat # None
    /\ last.max_results = 2
    /\ Len(last.items) = 2
    /\ last.items[1].distance_km # None /\ last.items[2].distance_km # None
    /\ last.items[1].distance_km[1] < last.items[2].distance_km[1]
    /\ last.items[1].id > last.items[2].id
    /\ \E p \in DOMAIN partners :
          /\ p \notin Ids(last.items)
          /\ TypeAsked(p, last.intent)
          /\ ~TooFar(p, last.lat, last.lon)

\* C19: with the caller's position known, no returned partner with known
\* coordinates is farther away than its own service_radius_km; a partner
\* exactly at its radius, or without coordinates, is not excluded for it.
C19_WithinOwnRadius ==
    \A intent \in QueryIntents, n \in MaxResultsInputs :
        LET lat   == Some(1300)
            lon   == Some(7700)
            items == get_nearby_partners(partners, lat, lon, intent, n)
        IN  /\ \A p \in Ids(items) : ~TooFar(p, lat, lon)
            /\ \A p \in DOMAIN partners :
                  ( /\ TypeAsked(p, intent)
                    /\ n >= Cardinality(DOMAIN partners)
                    /\ \/ partners[p].lat = None
                       \/ partners[p].lon = None
                       \/ /\ partners[p].service_radius_km # None
                          /\ Distance(lat[1], lon[1], partners[p])
                               = partners[p].service_radius_km )
                  => p \in Ids(items)

\* A search returned a partner exactly at its radius and left out one that
\* is beyond its own.
C19_Witness ==
    /\ Searched
    /\ last.lat # None
    /\ \E p \in Ids(last.items) :
          /\ partners[p].service_radius_km # None
          /\ Distance(last.lat[1], last.lon[1], partners[p])
               = partners[p].service_radius_km
    /\ \E p \in DOMAIN partners :
          /\ TypeAsked(p, last.intent)
          /\ TooFar(p, last.lat, last.lon)
          /\ p \notin Ids(last.items)

\* C20: in every answer, with or without the caller's position and for
\* every intent, contact_phone is null for a partner that is not verified.
C20_PhoneOnlyVerified ==
    \A lat \in QueryLats, lon \in QueryLons, intent \in QueryIntents :
        LET items == get_nearby_partners(partners, lat, lon, intent, 10)
        IN  \A i \in 1 .. Len(items) :
                partners[items[i].id].kyc_status # "verified"
                    => items[i].contact_phone = None

----------------------------------------------------------------------------
(* Claims C21: a search without the caller's position                      *)

\* The partners of the type the intent asks for.
Matching(intent) == { p \in DOMAIN partners : TypeAsked(p, intent) }

\* Every entry has distance_km null and the entries are in query (id) order.
Unranked(items) ==
    /\ \A i \in 1 .. Len(items) : items[i].distance_km = None
    /\ \A i, j \in 1 .. Len(items) : i < j => items[i].id < items[j].id

\* C21 as stated: when the caller's lat or lon is unknown the answer holds
\* every partner matching the intent's type filter, each with distance_km
\* null, none excluded by its service radius, in query order.
C21_NoPositionAll ==
    \A lat \in QueryLats, lon \in QueryLons, intent \in QueryIntents, n \in MaxResultsInputs :
        ~Known(lat, lon) =>
            LET items == get_nearby_partners(partners, lat, lon, intent, n)
            IN  /\ Ids(items) = Matching(intent)
                /\ Unranked(items)

\* C21 (amended): when the caller's lat or lon is unknown the answer holds
\* the first max_results partners matching the intent's type filter (all of
\* them when there are no more than max_results), each with distance_km
\* null, none excluded by its service radius, in query order.
C21_NoPositionFirst ==
    \A lat \in QueryLats, lon \in QueryLons, intent \in QueryIntents, n \in MaxResultsInputs :
        ~Known(lat, lon) =>
            LET items == get_nearby_partners(partners, lat, lon, intent, n)
            IN  /\ Ids(items) \subseteq Matching(intent)
                /\ Len(items) = Min({n, Cardinality(Matching(intent))})
                /\ \A p \in Matching(intent) \ Ids(items) :
                      \A q \in Ids(items) : q < p
                /\ Unranked(items)

\* A search without a latitude was cut off at max_results and returned a
\* partner that lies beyond its own service radius from the usual position.
C21_Witness ==
    /\ Searched
    /\ last.lat = None
    /\ Len(last.items) = last.max_results
    /\ Cardinality(Matching(last.intent)) > last.max_results
    /\ \E p \in Ids(last.items) : TooFar(p, Some(1300), Some(7700))

----------------------------------------------------------------------------
(* Claims C22: the upload directory                                        *)

\* The files some listing's image_path names.
Referenced == { listings[l].image_path : l \in DOMAIN listings }

\* C22: after every completed request each file in the upload directory is
\* the image_path of an existing listing; a create_listing request refused
\* as a duplicate leaves no file behind.
C22_NoOrphanFiles == uploads \subseteq Referenced

----------------------------------------------------------------------------
(* Claims C23: requests by a caller without the rights                     *)

\* The handler refused with 403 and left the table as it was.
Refused(r, db) == r.code = 403 /\ r.db = db

\* The partner handler refused with 403 and left "partners" as it was.
RefusedPartner(r) == r.code = 403 /\ r.partners = partners

\* C23: an admin route (verify or reject partner, bulk verify, hide, restore
\* or remove listing) called by a user whose role is not admin, and a lead
\* action (accept, reject, complete) called by a user with no Partner
\* record, fail with 403 and leave every listing and partner unchanged.
C23_NoRightsNoChange ==
    /\ \A a \in DOMAIN users :
          users[a].role # "admin" =>
            /\ \A l \in ListingIds :
                  /\ Refused(admin_hide_listing(listings, users[a].role, l), listings)
                  /\ Refused(admin_restore_listing(listings, users[a].role, l), listings)
                  /\ Refused(admin_remove_listing(listings, users[a].role, l), listings)
            /\ \A p \in Users :
                  /\ RefusedPartner(admin_verify_partner(partners, users[a].role, p))
                  /\ RefusedPartner(admin_reject_partner(partners, users[a].role, p))
            /\ \A payload \in BulkInputs :
                  RefusedPartner(admin_verify_partners_bulk(partners, users[a].role, payload))
    /\ \A u \in Users :
          require_partner(partners, u) = None =>
            \A l \in ListingIds :
                /\ Refused(partner_accept_lead(listings, partners, u, l), listings)
                /\ Refused(partner_reject_lead(listings, partners, u, l), listings)
                /\ \A payload \in CompletionInputs :
                      Refused(partner_complete_lead(listings, partners, u, l, payload), listings)

\* A user who is not the admin asked to hide an existing, visible listing
\* and was refused; the listing is still visible.
C23_Witness ==
    /\ last.op = "hide"
    /\ last.code = 403
    /\ \E l \in DOMAIN listings : listings[l].status \notin {"hidden", "removed"}
    /\ \E p \in DOMAIN partners : partners[p].kyc_status = "rejected"

----------------------------------------------------------------------------
(* Claims C24: one Partner row per user                                    *)

\* C24: in every reachable state no two Partner rows share the same
\* user_id, after any sequence of account registrations, register_partner
\* calls and partner CSV imports.
C24_OnePartnerPerUser ==
    \A p, q \in DOMAIN partners :
        partners[p].user_id = partners[q].user_id => p = q

----------------------------------------------------------------------------
(* Claims C25 to C28: the lifecycle under moderation                       *)

\* The status the listing has after the handler.
StatusAfter(r, l) == r.db[l].status

\* C25: no partner action (accept, reject, complete) changes the status of
\* a listing whose status is hidden or removed.
C25_ModeratedUntouched ==
    \A l \in DOMAIN listings, u \in Users :
        listings[l].status \in {"hidden", "removed"} =>
            /\ StatusAfter(partner_accept_lead(listings, partners, u, l), l) = listings[l].status
            /\ StatusAfter(partner_reject_lead(listings, partners, u, l), l) = listings[l].status
            /\ \A payload \in CompletionInputs :
                  StatusAfter(partner_complete_lead(listings, partners, u, l, payload), l)
                      = listings[l].status

\* C26: a listing with status in_progress has a chosen partner, and a
\* listing with status completed has a chosen partner and an outcome.
C26_AssignedWhenWorked ==
    \A l \in DOMAIN listings :
        /\ listings[l].status = "in_progress" => listings[l].chosen_partner_id # None
        /\ listings[l].status = "completed" =>
              listings[l].chosen_partner_id # None /\ listings[l].outcome # None

\* A partner took a listing the admin had restored: it is in progress.
C26_Witness ==
    /\ last.op = "accept"
    /\ last.code = 200
    /\ \E l \in DOMAIN listings :
          listings[l].status = "in_progress" /\ listings[l].outcome # None

\* C27: a listing whose status is created or shared_with_partner has no
\* chosen partner, also after the admin restored a listing that was in
\* progress or completed.
C27_UnassignedWhenOpen ==
    \A l \in DOMAIN listings :
        listings[l].status \in {"created", "shared_with_partner"}
            => listings[l].chosen_partner_id = None

\* C28: a complete call on a listing that is completed leaves its outcome,
\* final_price and final_rul_months as they were recorded.
C28_CompletionFinal ==
    \A l \in DOMAIN listings, u \in Users, payload \in CompletionInputs :
        listings[l].status = "completed" =>
            LET r == partner_complete_lead(listings, partners, u, l, payload)
            IN  /\ r.db[l].outcome = listings[l].outcome
                /\ r.db[l].final_price = listings[l].final_price
                /\ r.db[l].final_rul_months = listings[l].final_rul_months

----------------------------------------------------------------------------
(* Claims C29: delete_listing                                              *)

\* The request delete_listing answered: nothing was deleted.
Untouched(r) == r.db = listings /\ r.files = uploads

\* The same user submits the brand, model and image of listing l again,
\* to the tables and files r leaves.
Resubmitted(r, l) ==
    create_listing(r.db, listings[l].user_id, listings[l].brand, listings[l].model,
                   listings[l].intent, listings[l].image_md5[2], "recycle",
                   FreshFile(r.files))

\* C29: delete_listing answers 404 on a missing id and 403 on another
\* user's listing, leaving all listings and files unchanged; after the
\* owner's delete the record and its image file are gone, and the owner's
\* submission of the identical brand, model and image succeeds.
C29_OwnerDeletes ==
    \A u \in Users, l \in ListingIds :
        LET r == delete_listing(listings, uploads, u, l)
        IN  /\ l \notin DOMAIN listings => r.code = 404 /\ Untouched(r)
            /\ (l \in DOMAIN listings /\ listings[l].user_id # u)
                  => r.code = 403 /\ Untouched(r)
            /\ (l \in DOMAIN listings /\ listings[l].user_id = u)
                  => /\ r.code = 200
                     /\ DOMAIN r.db = DOMAIN listings \ {l}
                     /\ r.files = uploads \ {listings[l].image_path}
                     /\ Resubmitted(r, l).code = 200

\* The owner deleted the listing: no listing is left, and the file that
\* remains is the one a refused duplicate left behind.
C29_Witness ==
    /\ last.op = "delete"
    /\ last.code = 200
    /\ listings = << >>
    /\ uploads # {}

----------------------------------------------------------------------------
(* Claims C30: verification                                                *)

\* The partner rows that are verified.
Verified(P) == { p \in DOMAIN P : P[p].kyc_status = "verified" }

\* The entries of the answer that show a phone number.
WithPhone(items) == { items[i].id : i \in { j \in 1 .. Len(items) : items[j].contact_phone # None } }

\* Every accepted register_partner call leaves the caller's row submitted,
\* and no search by a caller with coordinates then shows its phone.
EditUnverifies ==
    \A u \in Users, pr \in ProfileEdits :
        LET r == register_partner(partners, u, pr)
            p == require_partner(r.partners, u)
        IN  r.code = 200 =>
              /\ p # None
              /\ r.partners[p[1]].kyc_status = "submitted"
              /\ \A intent \in QueryIntents, n \in MaxResultsInputs :
                    p[1] \notin WithPhone(get_nearby_partners(r.partners, Some(1300), Some(7700), intent, n))

\* A row becomes verified only in an admin verify (single or bulk) or a
\* CSV import that succeeded.
VerifiedByAdminOnly ==
    Verified(partners') \ Verified(partners) # {}
        => last'.op \in {"verify", "verify_bulk", "import"} /\ last'.code = 200

\* C30: kyc_status becomes verified only through an admin verify (single or
\* bulk) or a CSV import; every register_partner call, also by a verified
\* or rejected partner, leaves kyc_status = submitted, so that the
\* partner's phone is redacted in searches with coordinates.
C30_VerifiedOnlyByAdmin == []EditUnverifies /\ [][VerifiedByAdminOnly]_vars

\* A partner with a phone number saved its profile after it had been
\* verified or rejected; the search with coordinates returns it with its
\* phone redacted, next to a verified partner.
C30_Witness ==
    /\ last.op = "nearby"
    /\ Verified(partners) # {}
    /\ \E i \in 1 .. Len(last.items) :
          /\ partners[last.items[i].id].contact_phone # None
          /\ partners[last.items[i].id].kyc_status = "submitted"
          /\ partners[last.items[i].id].user_id # 0
          /\ last.items[i].contact_phone = None

====
